---------------------------- MODULE Spec2Model ----------------------------
(***************************************************************************)
(* Model of the curve kernel of MFEKStroke:                                *)
(*   src/src/MFEKmath/bezier/mod.rs   Bezier (coefficients, control points)*)
(*   src/src/qmath/piecewise.rs       Piecewise<T>, contour and outline    *)
(*                                    conversions, skia path conversions   *)
(*                                                                         *)
(* Coordinates are f64 in the source.  They are modelled by integers with  *)
(* exact arithmetic; every division the code performs (by 3., in           *)
(* to_control_points) is exact on the values the model builds, and the     *)
(* global parameter t of a Piecewise is an exact rational tnum/tden.       *)
(***************************************************************************)
EXTENDS Integers, Sequences, FiniteSets, TLC

VARIABLES
    pc,           \* position of the running operation
    arg,          \* the argument(s) the operation was called with
    self,         \* the object the operation works on / builds
    ret,          \* the value returned ("panic" for a fatal error)
    skpath,       \* the skia Path being built or iterated (verbs, in order)
    contours,     \* from_skpath: contours
    cur_contour,  \* from_skpath: cur_contour
    last_point    \* from_skpath: last_point

vars == <<pc, arg, self, ret, skpath, contours, cur_contour, last_point>>

-----------------------------------------------------------------------------
(* Bounds of the model *)

\* coordinates of the control points of the Bezier round trip: -1..MaxCoord
MaxCoord == 1

Coord == (-1)..MaxCoord

\* Vector {x, y}
Vector(px, py) == [x |-> px, y |-> py]

Vectors == {Vector(px, py) : px \in Coord, py \in Coord}

\* the value a variable holds while it is not in use
None == [kind |-> "none"]

\* the outcome of a panic!(), of a failed unwrap() or of an index out of range
Panic == [kind |-> "panic"]

\* a value returned normally
Ok(v) == [kind |-> "ok", value |-> v]

-----------------------------------------------------------------------------
(* src/src/MFEKmath/bezier/mod.rs *)

\* Bezier::from_points
from_points(p0, p1, p2, p3) ==
    LET x0 == p0.x  y0 == p0.y
        x1 == p1.x  y1 == p1.y
        x2 == p2.x  y2 == p2.y
        x3 == p3.x  y3 == p3.y
    IN  [ A |-> (x3 - 3 * x2 + 3 * x1 - x0),
          B |-> (3 * x2 - 6 * x1 + 3 * x0),
          C |-> (3 * x1 - 3 * x0),
          D |-> x0,
          E |-> (y3 - 3 * y2 + 3 * y1 - y0),
          F |-> (3 * y2 - 6 * y1 + 3 * y0),
          G |-> (3 * y1 - 3 * y0),
          H |-> y0,
          control_points |-> <<p0, p1, p2, p3>> ]

\* to_control_points with the F and G terms of the third point exchanged
to_control_points_FG_swapped(b) ==
    << Vector(b.D, b.H),
       Vector(b.D + (b.C \div 3), b.H + (b.G \div 3)),
       Vector(b.D + ((2 * b.C) \div 3) + (b.B \div 3),
              b.H + ((2 * b.F) \div 3) + (b.G \div 3)),
       Vector(b.D + b.C + b.B + b.A, b.H + b.G + b.F + b.E) >>

\* Bezier::to_control_points (reads the coefficients, not control_points)
to_control_points(b) ==
    << Vector(b.D, b.H),
       Vector(b.D + (b.C \div 3), b.H + (b.G \div 3)),
       Vector(b.D + ((2 * b.C) \div 3) + (b.B \div 3),
              b.H + ((2 * b.G) \div 3) + (b.F \div 3)),
       Vector(b.D + b.C + b.B + b.A, b.H + b.G + b.F + b.E) >>

\* every division by 3. in to_control_points is exact on this Bezier
DivisionsExact(b) ==
    /\ b.C % 3 = 0 /\ b.B % 3 = 0
    /\ b.G % 3 = 0 /\ b.F % 3 = 0

-----------------------------------------------------------------------------
(* Specification 1: Bezier::from_points followed by to_control_points *)

InitBezier ==
    /\ pc = "bezier_start"
    /\ arg \in [1..4 -> Vectors]
    /\ self = None
    /\ ret = None
    /\ skpath = None /\ contours = None /\ cur_contour = None
    /\ last_point = None

BezierFromPoints ==
    /\ pc = "bezier_start"
    /\ self' = from_points(arg[1], arg[2], arg[3], arg[4])
    /\ pc' = "bezier_built"
    /\ UNCHANGED <<arg, ret, skpath, contours, cur_contour, last_point>>

BezierToControlPoints ==
    /\ pc = "bezier_built"
    /\ ret' = Ok(to_control_points(self))
    /\ pc' = "bezier_done"
    /\ UNCHANGED <<arg, self, skpath, contours, cur_contour, last_point>>

NextBezier == BezierFromPoints \/ BezierToControlPoints

SpecBezier == InitBezier /\ [][NextBezier]_vars

\* the model's integer division stands for an exact f64 division
BezierDivisionsExact == pc = "bezier_built" => DivisionsExact(self)

\* C1: for every four control points P0..P3, the control points returned by
\* from_points(P0,P1,P2,P3).to_control_points() are exactly P0, P1, P2, P3,
\* in the x and in the y component of each of the four points.
C1_RoundTrip ==
    pc = "bezier_done" =>
        /\ ret.kind = "ok"
        /\ Len(ret.value) = 4
        /\ \A i \in 1..4 : /\ ret.value[i].x = arg[i].x
                           /\ ret.value[i].y = arg[i].y

\* a round trip has completed on four points whose F and G coefficients
\* differ and whose coordinates include a negative value
C1_Witness ==
    /\ pc = "bezier_done"
    /\ self.F # self.G
    /\ self.A # 0 /\ self.E # 0
    /\ arg[2].x < 0
    /\ ret.value = <<arg[1], arg[2], arg[3], arg[4]>>

-----------------------------------------------------------------------------
(* src/src/qmath/piecewise.rs: impl Evaluate for Piecewise<T> *)

\* number of segments of the Piecewise that is evaluated: 0..MaxSegs
MaxSegs == 4

\* the global parameter t is tnum/tden with 1 <= tden <= MaxDen, 0 <= tnum <= tden
MaxDen == 4

Times == {<<tnum, tden>> : tnum \in 0..MaxDen, tden \in 1..MaxDen}
            \cap {tt \in (0..MaxDen) \X (1..MaxDen) : tt[1] <= tt[2]}

\* f64::floor of the non-negative rational num/den
floor(num, den) == num \div den

\* f64::min on integers
min(a, b) == IF a <= b THEN a ELSE b

\* the call curves[curve_index].<fn>(offset_time); indexing a Vec out of
\* range is a panic.  The segment's own evaluate/derivative is not part of
\* these files, so the call is recorded, not computed.
Delegate(fn, curves, curve_index, offset_time) ==
    IF curve_index + 1 \in DOMAIN curves
    THEN Ok([fn |-> fn, index |-> curve_index,
             curve |-> curves[curve_index + 1], t |-> offset_time])
    ELSE Panic

\* the time remapping without the min() clamp to the last segment
Remap_unclamped(fn, curves, t) ==
    LET n == Len(curves)
        modified_time == <<n * t[1], t[2]>>
        curve_index == floor(modified_time[1], modified_time[2])
        offset_time == <<modified_time[1] - curve_index * t[2], t[2]>>
    IN  Delegate(fn, curves, curve_index, offset_time)

\* lines 26-32 and 43-49: modified_time, curve_index, offset_time, delegation
Remap(fn, curves, t) ==
    LET n == Len(curves)
        modified_time == <<n * t[1], t[2]>>
        curve_index == min(floor(modified_time[1], modified_time[2]), n - 1)
        offset_time == <<modified_time[1] - curve_index * t[2], t[2]>>
    IN  Delegate(fn, curves, curve_index, offset_time)

\* Piecewise::evaluate
evaluate(pw, t) ==
    IF Len(pw.curves) = 0 THEN Panic ELSE Remap("evaluate", pw.curves, t)

\* Piecewise::derivative
derivative(pw, t) ==
    IF Len(pw.curves) = 0 THEN Panic ELSE Remap("derivative", pw.curves, t)

\* an f64 that may be +/- infinity: inf is 1, -1 or 0 (finite, value v)
Fin(v) == [inf |-> 0, v |-> v]
INFINITY == [inf |-> 1, v |-> 0]
NEG_INFINITY == [inf |-> -1, v |-> 0]

ext_le(a, b) ==
    \/ a.inf = -1
    \/ b.inf = 1
    \/ a.inf = 0 /\ b.inf = 0 /\ a.v <= b.v

ext_min(a, b) == IF ext_le(a, b) THEN a ELSE b
ext_max(a, b) == IF ext_le(a, b) THEN b ELSE a

\* Rect::encapsulate_rect: the union of two rectangles
encapsulate_rect(r, o) ==
    [ left   |-> ext_min(r.left, o.left),
      bottom |-> ext_min(r.bottom, o.bottom),
      right  |-> ext_max(r.right, o.right),
      top    |-> ext_max(r.top, o.top) ]

\* Bezier::bounds of a straight segment (both handles on the end points):
\* the box of its two end points
bezier_bounds(b) ==
    LET cp == to_control_points(b)
    IN  [ left   |-> Fin(min(cp[1].x, cp[4].x)),
          bottom |-> Fin(min(cp[1].y, cp[4].y)),
          right  |-> Fin(-min(-cp[1].x, -cp[4].x)),
          top    |-> Fin(-min(-cp[1].y, -cp[4].y)) ]

\* lines 56-61: the inverted infinite rectangle the union starts from
EmptyRect ==
    [ left |-> INFINITY, bottom |-> INFINITY,
      right |-> NEG_INFINITY, top |-> NEG_INFINITY ]

\* lines 63-65: for curve in &self.curves { output = output.encapsulate_rect(..) }
RECURSIVE encapsulate_all(_, _)
encapsulate_all(output, curves) ==
    IF curves = <<>> THEN output
    ELSE encapsulate_all(encapsulate_rect(output, bezier_bounds(Head(curves))),
                         Tail(curves))

\* bounds without the check for an empty Piecewise
bounds_unguarded(pw) == Ok(encapsulate_all(EmptyRect, pw.curves))

\* Piecewise::bounds
bounds(pw) ==
    IF Len(pw.curves) = 0 THEN Panic
    ELSE Ok(encapsulate_all(EmptyRect, pw.curves))

\* the i-th of n unit segments laid end to end: a straight segment from
\* (i-1, 0) to (i, 0)
UnitSegment(i) ==
    from_points(Vector(i - 1, 0), Vector(i - 1, 0), Vector(i, 0), Vector(i, 0))

UnitPiecewise(n) == [curves |-> [i \in 1..n |-> UnitSegment(i)]]

-----------------------------------------------------------------------------
(* Specification 2: evaluate, derivative and bounds of a Piecewise *)

InitEval ==
    /\ pc = "pw_start"
    /\ self \in {UnitPiecewise(n) : n \in 0..MaxSegs}
    /\ arg \in Times
    /\ ret = None
    /\ skpath = None /\ contours = None /\ cur_contour = None
    /\ last_point = None

PiecewiseEvaluate ==
    /\ pc = "pw_start"
    /\ ret' = evaluate(self, arg)
    /\ pc' = "evaluate_done"
    /\ UNCHANGED <<arg, self, skpath, contours, cur_contour, last_point>>

PiecewiseDerivative ==
    /\ pc = "pw_start"
    /\ ret' = derivative(self, arg)
    /\ pc' = "derivative_done"
    /\ UNCHANGED <<arg, self, skpath, contours, cur_contour, last_point>>

PiecewiseBounds ==
    /\ pc = "pw_start"
    /\ ret' = bounds(self)
    /\ pc' = "bounds_done"
    /\ UNCHANGED <<arg, self, skpath, contours, cur_contour, last_point>>

NextEval == PiecewiseEvaluate \/ PiecewiseDerivative \/ PiecewiseBounds

SpecEval == InitEval /\ [][NextEval]_vars

\* the segment and local parameter the call on n segments at t must reach:
\* segment k holds t when k/n <= t < (k+1)/n, the last one also holds t = 1
Selects(n, t, index, local_t) ==
    /\ index \in 0..(n - 1)
    /\ index * t[2] <= n * t[1]
    /\ (n * t[1] < (index + 1) * t[2]) \/ (index = n - 1)
    /\ local_t[2] > 0
    /\ local_t[1] * t[2] = (n * t[1] - index * t[2]) * local_t[2]
    /\ 0 <= local_t[1] /\ local_t[1] <= local_t[2]

\* C2: with n >= 1 segments and t in [0,1], evaluate(t) and derivative(t)
\* delegate to curves[index] at local_t, where index = min(floor(n*t), n-1)
\* lies in 0..n-1 and local_t = n*t - index lies in [0,1]; t = k/n with
\* 0 <= k < n selects segment k at local parameter 0, and t = 1 selects the
\* last segment at local parameter 1.
C2_Partition ==
    (pc \in {"evaluate_done", "derivative_done"} /\ Len(self.curves) >= 1) =>
        LET n == Len(self.curves) IN
        /\ ret.kind = "ok"
        /\ ret.value.fn = (IF pc = "evaluate_done" THEN "evaluate"
                                                   ELSE "derivative")
        /\ Selects(n, arg, ret.value.index, ret.value.t)
        /\ ret.value.curve = self.curves[ret.value.index + 1]
        /\ \A k \in 0..(n - 1) :
              (arg[1] * n = k * arg[2]) =>
                  (ret.value.index = k /\ ret.value.t[1] = 0)
        /\ (arg[1] = arg[2]) =>
              (ret.value.index = n - 1 /\ ret.value.t[1] = ret.value.t[2])

\* evaluate at t = 1 on three segments reached the last segment at 1
C2_Witness ==
    /\ pc = "evaluate_done"
    /\ Len(self.curves) = 3
    /\ arg[1] = arg[2]
    /\ ret.kind = "ok"
    /\ ret.value.index = 2
    /\ ret.value.curve = UnitSegment(3)
    /\ ret.value.t[1] = ret.value.t[2]

\* C3: evaluate, derivative and bounds on a Piecewise with no curves end in
\* a fatal error for every t and return no Vector or Rect.
C3_EmptyFails ==
    (pc \in {"evaluate_done", "derivative_done", "bounds_done"}
        /\ Len(self.curves) = 0) => ret.kind = "panic"

\* bounds was called on an empty Piecewise and failed
C3_Witness ==
    /\ pc = "bounds_done"
    /\ Len(self.curves) = 0
    /\ ret.kind = "panic"

-----------------------------------------------------------------------------
(* glifparser contours: src/src/MFEKmath/bezier/mod.rs (Bezier::from) and
   src/src/qmath/piecewise.rs (impl Piecewise<Bezier>) *)

\* number of points of a contour: 0..MaxPoints
MaxPoints == 3

\* the positions the points and handles of a contour are drawn from
ContourVectors == {Vector(0, 1), Vector(2, 0)}

\* glifparser::Handle
Colocated == [kind |-> "Colocated", x |-> 0, y |-> 0]
At(hx, hy) == [kind |-> "At", x |-> hx, y |-> hy]

\* the outgoing (a) and the incoming (b) handles a point is drawn with
OutHandles == {Colocated, At(3, 1)}
InHandles == {Colocated, At(1, 3)}

\* glifparser::Point (the fields the kernel reads or writes)
Point(px, py, ha, hb, pt) ==
    [x |-> px, y |-> py, a |-> ha, b |-> hb, ptype |-> pt]

\* a "move" point only ever opens a contour
FirstPoints ==
    {Point(v.x, v.y, ha, hb, pt) :
        v \in ContourVectors, ha \in OutHandles, hb \in InHandles,
        pt \in {"Move", "Curve"}}

NextPoints ==
    {Point(v.x, v.y, ha, hb, "Curve") :
        v \in ContourVectors, ha \in OutHandles, hb \in InHandles}

RECURSIVE ContoursOfLen(_)
ContoursOfLen(k) ==
    IF k = 0 THEN {<<>>}
    ELSE IF k = 1 THEN {<<p>> : p \in FirstPoints}
    ELSE {Append(c, p) : c \in ContoursOfLen(k - 1), p \in NextPoints}

Contours == UNION {ContoursOfLen(k) : k \in 0..MaxPoints}

\* Vector::from_point
from_point(point) == Vector(point.x, point.y)

\* Vector::from_handle: a colocated handle lies on its own point
from_handle(point, which) ==
    LET h == IF which = "A" THEN point.a ELSE point.b
    IN  IF h.kind = "At" THEN Vector(h.x, h.y) ELSE Vector(point.x, point.y)

\* Vector::to_handle
to_handle(v) == At(v.x, v.y)

\* Vector::to_point
to_point(v, handle_a, handle_b) == Point(v.x, v.y, handle_a, handle_b, "Curve")

\* Bezier::from
from(point, next_point) ==
    LET p  == from_point(point)
        np == from_point(next_point)
        h1 == from_handle(point, "A")
        h2 == from_handle(next_point, "B")
    IN  from_points(p, h1, h2, np)

\* lines 212-223: one Bezier per pair of consecutive points
PairCurves(contour) ==
    [i \in 1..(Len(contour) - 1) |-> from(contour[i], contour[i + 1])]

\* from_contour whose closing segment takes the first point's A handle and
\* the last point's B handle
from_contour_closing_reversed(contour) ==
    IF Len(contour) = 0 THEN Panic
    ELSE LET firstpoint == contour[1]
             lastpoint == contour[Len(contour)]
         IN  IF firstpoint.ptype # "Move"
             THEN Ok([curves |-> Append(PairCurves(contour),
                                        from(firstpoint, lastpoint))])
             ELSE Ok([curves |-> PairCurves(contour)])

\* Piecewise<Bezier>::from_contour; contour.first().unwrap() fails on an
\* empty contour
from_contour(contour) ==
    IF Len(contour) = 0 THEN Panic
    ELSE LET firstpoint == contour[1]
             lastpoint == contour[Len(contour)]
         IN  IF firstpoint.ptype # "Move"
             THEN Ok([curves |-> Append(PairCurves(contour),
                                        from(lastpoint, firstpoint))])
             ELSE Ok([curves |-> PairCurves(contour)])

\* lines 238-257: one point per curve, its b handle taken from the curve
\* before it
LoopPoints(curves) ==
    [i \in 1..Len(curves) |->
        LET control_points == to_control_points(curves[i])
            new_point == to_point(control_points[1],
                                  to_handle(control_points[2]), Colocated)
        IN  IF i > 1
            THEN [new_point EXCEPT
                    !.b = to_handle(to_control_points(curves[i - 1])[3])]
            ELSE new_point]

\* to_contour without the reconnection of the first point (line 260)
to_contour_unconnected(pw) ==
    IF Len(pw.curves) = 0 THEN Panic
    ELSE Ok(LoopPoints(pw.curves))

\* Piecewise<Bezier>::to_contour; first_mut().unwrap() fails when there is
\* no curve
to_contour(pw) ==
    IF Len(pw.curves) = 0 THEN Panic
    ELSE LET output_contour == LoopPoints(pw.curves)
             last_curve == to_control_points(pw.curves[Len(pw.curves)])
         IN  Ok([output_contour EXCEPT ![1].b = to_handle(last_curve[3])])

-----------------------------------------------------------------------------
(* Specification 3: from_contour followed by to_contour *)

InitContour ==
    /\ pc = "contour_start"
    /\ arg \in Contours
    /\ self = None
    /\ ret = None
    /\ skpath = None /\ contours = None /\ cur_contour = None
    /\ last_point = None

FromContour ==
    /\ pc = "contour_start"
    /\ self' = from_contour(arg)
    /\ pc' = "from_contour_done"
    /\ UNCHANGED <<arg, ret, skpath, contours, cur_contour, last_point>>

ToContour ==
    /\ pc = "from_contour_done"
    /\ self.kind = "ok"
    /\ ret' = to_contour(self.value)
    /\ pc' = "to_contour_done"
    /\ UNCHANGED <<arg, self, skpath, contours, cur_contour, last_point>>

NextContour == FromContour \/ ToContour

SpecContour == InitContour /\ [][NextContour]_vars

\* the four control points of the segment from point p to point q
SegmentOf(p, q) ==
    <<from_point(p), from_handle(p, "A"), from_handle(q, "B"), from_point(q)>>

\* C4: on a contour of k >= 2 points from_contour returns k-1 segments when
\* the first point is a Move and k segments otherwise; segment i runs from
\* point i to point i+1 with the A handle of point i and the B handle of
\* point i+1, and without a Move the last segment runs from the last point
\* back to the first with the last point's A and the first point's B handle.
C4_FromContour ==
    (pc = "from_contour_done" /\ Len(arg) >= 2) =>
        LET k == Len(arg) IN
        /\ self.kind = "ok"
        /\ Len(self.value.curves) = (IF arg[1].ptype = "Move" THEN k - 1 ELSE k)
        /\ \A i \in 1..(k - 1) :
              to_control_points(self.value.curves[i]) = SegmentOf(arg[i], arg[i + 1])
        /\ (arg[1].ptype # "Move") =>
              to_control_points(self.value.curves[k]) = SegmentOf(arg[k], arg[1])

\* a closed contour of three points with explicit handles at its ends
\* became three segments
C4_Witness ==
    /\ pc = "from_contour_done"
    /\ Len(arg) = 3
    /\ arg[1].ptype # "Move"
    /\ arg[3].a.kind = "At" /\ arg[1].b.kind = "At"
    /\ from_handle(arg[3], "A") # from_handle(arg[1], "B")
    /\ from_point(arg[1]) # from_point(arg[3])
    /\ self.kind = "ok"
    /\ Len(self.value.curves) = 3

\* point i of the contour out carries the position and both handle
\* positions of point i of the contour in
SamePointValues(in, out, i) ==
    /\ from_point(out[i]) = from_point(in[i])
    /\ from_handle(out[i], "A") = from_handle(in[i], "A")
    /\ from_handle(out[i], "B") = from_handle(in[i], "B")

Reproduced(in, out) ==
    /\ out.kind = "ok"
    /\ Len(out.value) = Len(in)
    /\ \A i \in 1..Len(in) : SamePointValues(in, out.value, i)

C6_ShortContourFails ==
    (pc = "from_contour_done" /\ Len(arg) < 2) => self.kind = "panic"

-----------------------------------------------------------------------------
(* skia paths: src/src/qmath/piecewise.rs, from_skpath and append_to_skpath *)

\* the positions the points of a path are drawn from
PathVectors == {Vector(0, 1), Vector(2, 0)}

\* f64 as f32 on an integer n: exact up to 2^24 in magnitude, to the nearest
\* even mantissa up to 2^25
as_f32(n) ==
    IF -16777216 <= n /\ n <= 16777216 THEN n
    ELSE IF n % 2 = 0 THEN n
    ELSE IF (n + 1) % 4 = 0 THEN n + 1 ELSE n - 1

\* Vector::to_skia_point (f64 to f32) and Vector::from_skia_point
to_skia_point(v) == Vector(as_f32(v.x), as_f32(v.y))
from_skia_point(p) == Vector(p.x, p.y)

\* one item of path::Iter: the verb and its points; for Line, Quad and Cubic
\* the first point is the point the pen is at
Item(v, vp) == [verb |-> v, pts |-> vp]

Last(seq) == seq[Len(seq)]

\* the point of the last Move of a path, (0,0) when there is none
RECURSIVE LastMovePoint(_)
LastMovePoint(path) ==
    IF path = <<>> THEN Vector(0, 0)
    ELSE IF Last(path).verb = "Move" THEN Last(path).pts[1]
    ELSE LastMovePoint(SubSeq(path, 1, Len(path) - 1))

\* the point the pen is at after the verbs of path
PenPoint(path) ==
    IF path = <<>> THEN Vector(0, 0)
    ELSE IF Last(path).verb = "Close" THEN LastMovePoint(path)
    ELSE Last(Last(path).pts)

\* Path::move_to, Path::line_to, Path::cubic_to
move_to(path, p) == Append(path, Item("Move", <<p>>))
line_to(path, p) == Append(path, Item("Line", <<PenPoint(path), p>>))
cubic_to(path, p1, p2, p3) ==
    Append(path, Item("Cubic", <<PenPoint(path), p1, p2, p3>>))

\* Bezier::from_control_points
from_control_points(p0, p1, p2, p3) == from_points(p0, p1, p2, p3)

\* the state of the loop of from_skpath
LoopState(cs, cur, lp) == [contours |-> cs, cur_contour |-> cur, last_point |-> lp]

\* lines 101-108
OnMove(st, vp) ==
    LoopState(IF st.cur_contour # <<>>
              THEN Append(st.contours, [curves |-> st.cur_contour])
              ELSE st.contours,
              <<>>,
              from_skia_point(vp[1]))

\* lines 110-115
OnLine(st, vp) ==
    LET lp == from_skia_point(vp[1])
        np == from_skia_point(vp[2])
    IN  LoopState(st.contours,
                  Append(st.cur_contour, from_control_points(lp, lp, np, np)),
                  np)

\* lines 117-123
OnQuad(st, vp) ==
    LET lp == st.last_point
        h2 == from_skia_point(vp[1])
        np == from_skia_point(vp[2])
    IN  LoopState(st.contours,
                  Append(st.cur_contour, from_control_points(lp, lp, h2, np)),
                  np)

\* lines 125-132
OnCubic(st, vp) ==
    LET lp == from_skia_point(vp[1])
        h1 == from_skia_point(vp[2])
        h2 == from_skia_point(vp[3])
        np == from_skia_point(vp[4])
    IN  LoopState(st.contours,
                  Append(st.cur_contour, from_control_points(lp, h1, h2, np)),
                  np)

\* lines 134-137
OnClose(st) ==
    LoopState(Append(st.contours, [curves |-> st.cur_contour]),
              <<>>,
              st.last_point)

\* lines 146-152
OnEnd(st) ==
    [curves |-> IF st.cur_contour # <<>>
                THEN Append(st.contours, [curves |-> st.cur_contour])
                ELSE st.contours]

\* lines 100-143: match v
OnVerb(st, item) ==
    CASE item.verb = "Move"  -> OnMove(st, item.pts)
      [] item.verb = "Line"  -> OnLine(st, item.pts)
      [] item.verb = "Quad"  -> OnQuad(st, item.pts)
      [] item.verb = "Cubic" -> OnCubic(st, item.pts)
      [] item.verb = "Close" -> OnClose(st)

RECURSIVE RunLoop(_, _)
RunLoop(st, items) ==
    IF items = <<>> THEN st
    ELSE RunLoop(OnVerb(st, Head(items)), Tail(items))

\* Piecewise<Piecewise<Bezier>>::from_skpath
from_skpath(ipath) ==
    OnEnd(RunLoop(LoopState(<<>>, <<>>, Vector(0, 0)), ipath))

-----------------------------------------------------------------------------
(* Specification 4: from_skpath, one step per verb the iterator yields *)

\* number of verbs of the path that is read
MaxVerbs == 4

InitFromSkpath ==
    /\ pc = "iter"
    /\ skpath = <<>>
    /\ contours = <<>>
    /\ cur_contour = <<>>
    /\ last_point = Vector(0, 0)
    /\ arg = None /\ self = None /\ ret = None

Here == LoopState(contours, cur_contour, last_point)

\* the iterator yields item, and the loop body runs on it
Yield(item) ==
    /\ skpath' = Append(skpath, item)
    /\ contours' = OnVerb(Here, item).contours
    /\ cur_contour' = OnVerb(Here, item).cur_contour
    /\ last_point' = OnVerb(Here, item).last_point
    /\ UNCHANGED <<pc, arg, self, ret>>

\* a path always begins with a Move
VerbMove ==
    /\ pc = "iter" /\ Len(skpath) < MaxVerbs
    /\ \E p \in PathVectors : Yield(Item("Move", <<p>>))

VerbLine ==
    /\ pc = "iter" /\ Len(skpath) < MaxVerbs /\ skpath # <<>>
    /\ \E p \in PathVectors : Yield(Item("Line", <<PenPoint(skpath), p>>))

VerbQuad ==
    /\ pc = "iter" /\ Len(skpath) < MaxVerbs /\ skpath # <<>>
    /\ \E h \in PathVectors, p \in PathVectors :
          Yield(Item("Quad", <<PenPoint(skpath), h, p>>))

VerbCubic ==
    /\ pc = "iter" /\ Len(skpath) < MaxVerbs /\ skpath # <<>>
    /\ \E h1 \in PathVectors, h2 \in PathVectors, p \in PathVectors :
          Yield(Item("Cubic", <<PenPoint(skpath), h1, h2, p>>))

VerbClose ==
    /\ pc = "iter" /\ Len(skpath) < MaxVerbs /\ skpath # <<>>
    /\ Yield(Item("Close", <<>>))

\* the iterator is exhausted: lines 146-152
IterDone ==
    /\ pc = "iter"
    /\ ret' = Ok(OnEnd(Here))
    /\ pc' = "from_skpath_done"
    /\ UNCHANGED <<arg, self, skpath, contours, cur_contour, last_point>>

NextFromSkpath ==
    VerbMove \/ VerbLine \/ VerbQuad \/ VerbCubic \/ VerbClose \/ IterDone

SpecFromSkpath == InitFromSkpath /\ [][NextFromSkpath]_vars

\* C7: a Quad verb with points (start, quad_handle, end) appends the Bezier
\* with control points (start, start + 2/3*(quad_handle - start),
\* end + 2/3*(quad_handle - end), end), which ends at the quad's end point.
\* (The two inner points are compared multiplied by 3.)
C7_QuadElevation ==
    (pc = "iter" /\ skpath # <<>> /\ Last(skpath).verb = "Quad") =>
        LET vp == Last(skpath).pts
            cp == to_control_points(Last(cur_contour))
        IN  /\ cp[1] = vp[1]
            /\ 3 * cp[2].x = vp[1].x + 2 * vp[2].x
            /\ 3 * cp[2].y = vp[1].y + 2 * vp[2].y
            /\ 3 * cp[3].x = vp[3].x + 2 * vp[2].x
            /\ 3 * cp[3].y = vp[3].y + 2 * vp[2].y
            /\ cp[4] = vp[3]
            /\ last_point = vp[3]

IsDraw(item) == item.verb \in {"Line", "Quad", "Cubic"}

\* the number of Line/Quad/Cubic verbs of each subpath of a verb stream, a
\* subpath ending at a Close, before a Move, or with the stream
RECURSIVE DrawCounts(_, _)
DrawCounts(items, n) ==
    IF items = <<>> THEN <<n>>
    ELSE IF IsDraw(Head(items)) THEN DrawCounts(Tail(items), n + 1)
    ELSE <<n>> \o DrawCounts(Tail(items), 0)

Positive(counts) == SelectSeq(counts, LAMBDA n : n > 0)

\* C10: for every verb stream, every contour of the outline from_skpath
\* returns holds at least one segment, and the contours are the subpaths
\* that hold a Line, Quad or Cubic, each with one segment per such verb.
C10_ContoursNonEmpty ==
    pc = "from_skpath_done" =>
        /\ \A i \in 1..Len(ret.value.curves) :
              Len(ret.value.curves[i].curves) >= 1
        /\ [i \in 1..Len(ret.value.curves) |-> Len(ret.value.curves[i].curves)]
              = Positive(DrawCounts(skpath, 0))

-----------------------------------------------------------------------------
(* src/src/qmath/piecewise.rs: append_to_skpath and to_skpath *)

\* lines 277-282 for one Bezier, the Line emitted on the opposite condition
append_bezier_line_negated(bez, path) ==
    LET controlp == to_control_points(bez)
        lined == IF ~(controlp[1] = controlp[3] /\ controlp[2] = controlp[4])
                 THEN line_to(path, to_skia_point(controlp[4]))
                 ELSE path
    IN  cubic_to(lined, to_skia_point(controlp[2]), to_skia_point(controlp[3]),
                 to_skia_point(controlp[4]))

\* lines 277-282 for one Bezier: the Line of a collapsed segment, then the
\* Cubic of every segment
append_bezier(bez, path) ==
    LET controlp == to_control_points(bez)
        lined == IF controlp[1] = controlp[3] /\ controlp[2] = controlp[4]
                 THEN line_to(path, to_skia_point(controlp[4]))
                 ELSE path
    IN  cubic_to(lined, to_skia_point(controlp[2]), to_skia_point(controlp[3]),
                 to_skia_point(controlp[4]))

\* lines 269-283: for bez in &self.curves, `first` being true for the first
RECURSIVE append_curves(_, _, _)
append_curves(curves, first, path) ==
    IF curves = <<>> THEN path
    ELSE LET controlp == to_control_points(Head(curves))
             moved == IF first THEN move_to(path, to_skia_point(controlp[1]))
                               ELSE path
         IN  append_curves(Tail(curves), FALSE, append_bezier(Head(curves), moved))

\* Piecewise<Bezier>::append_to_skpath
append_to_skpath(pw, path) == append_curves(pw.curves, TRUE, path)

-----------------------------------------------------------------------------
(* Specification 5: to_skpath of an outline, contour by contour, followed
   by from_skpath of the path *)

\* number of contours of an outline: 0..MaxContours
MaxContours == 2

\* number of segments of an outline, all contours together: 0..MaxOutlineSegs
MaxOutlineSegs == 2

Beziers ==
    {from_points(p0, p1, p2, p3) :
        p0 \in PathVectors, p1 \in PathVectors,
        p2 \in PathVectors, p3 \in PathVectors}

\* the number of segments of the first i of the contours with lengths lens
RECURSIVE SegsBefore(_, _)
SegsBefore(lens, i) ==
    IF i = 0 THEN 0 ELSE SegsBefore(lens, i - 1) + lens[i]

\* the outline whose i-th contour holds the next lens[i] of the segments segs
MakeOutline(lens, segs) ==
    [curves |->
        [i \in 1..Len(lens) |->
            [curves |->
                [j \in 1..lens[i] |-> segs[SegsBefore(lens, i - 1) + j]]]]]

\* to_skpath: Path::new(), then append_to_skpath; arg counts the contours
\* appended so far
InitOutline ==
    /\ pc = "append_loop"
    /\ \E c \in 0..MaxContours :
         \E lens \in [1..c -> 0..MaxOutlineSegs] :
            /\ SegsBefore(lens, c) <= MaxOutlineSegs
            /\ \E segs \in [1..SegsBefore(lens, c) -> Beziers] :
                  self = MakeOutline(lens, segs)
    /\ arg = 0
    /\ skpath = <<>>
    /\ ret = None
    /\ contours = None /\ cur_contour = None /\ last_point = None

\* lines 156-158: skpath = contour.append_to_skpath(skpath)
AppendContour ==
    /\ pc = "append_loop"
    /\ arg < Len(self.curves)
    /\ skpath' = append_to_skpath(self.curves[arg + 1], skpath)
    /\ arg' = arg + 1
    /\ UNCHANGED <<pc, self, ret, contours, cur_contour, last_point>>

\* line 160: return skpath
ToSkpathReturn ==
    /\ pc = "append_loop"
    /\ arg = Len(self.curves)
    /\ pc' = "to_skpath_done"
    /\ UNCHANGED <<arg, self, ret, skpath, contours, cur_contour, last_point>>

FromSkpath ==
    /\ pc = "to_skpath_done"
    /\ ret' = Ok(from_skpath(skpath))
    /\ pc' = "round_trip_done"
    /\ UNCHANGED <<arg, self, skpath, contours, cur_contour, last_point>>

NextOutline == AppendContour \/ ToSkpathReturn \/ FromSkpath

SpecOutline == InitOutline /\ [][NextOutline]_vars

\* a verb as it was given to the path: Move(p), Line(p), Cubic(p1, p2, p3)
Given(item) ==
    IF item.verb = "Move" THEN item
    ELSE Item(item.verb, SubSeq(item.pts, 2, Len(item.pts)))

Collapsed(bez) ==
    LET cp == to_control_points(bez)
    IN  cp[1] = cp[3] /\ cp[2] = cp[4]

\* the verbs one segment must add
SegmentVerbs(bez) ==
    LET cp == to_control_points(bez)
    IN  (IF Collapsed(bez) THEN <<Item("Line", <<cp[4]>>)>> ELSE <<>>)
            \o <<Item("Cubic", <<cp[2], cp[3], cp[4]>>)>>

RECURSIVE Flatten(_)
Flatten(seqs) == IF seqs = <<>> THEN <<>> ELSE Head(seqs) \o Flatten(Tail(seqs))

\* the verbs a contour must add: nothing when it has no segment
ContourVerbs(pw) ==
    IF pw.curves = <<>> THEN <<>>
    ELSE <<Item("Move", <<to_control_points(pw.curves[1])[1]>>)>>
            \o Flatten([j \in 1..Len(pw.curves) |-> SegmentVerbs(pw.curves[j])])

OutlineVerbs(out, upto) ==
    Flatten([i \in 1..upto |-> ContourVerbs(out.curves[i])])

CountVerb(path, v) == Cardinality({i \in 1..Len(path) : path[i].verb = v})

NonEmptyContours(out, upto) ==
    Cardinality({i \in 1..upto : out.curves[i].curves # <<>>})

\* C8: appending a contour of n >= 1 segments leaves the verbs already in
\* the path unchanged and adds one Move to the first segment's P0, then for
\* each segment in order one Cubic(P1,P2,P3), preceded by a Line(P3) exactly
\* when P0 = P2 and P1 = P3; the outline does so contour after contour, so
\* an outline of contours that all hold a segment has one Move per contour.
C8_AppendToSkpath ==
    pc \in {"append_loop", "to_skpath_done"} =>
        /\ [i \in 1..Len(skpath) |-> Given(skpath[i])] = OutlineVerbs(self, arg)
        /\ CountVerb(skpath, "Move") = NonEmptyContours(self, arg)
        /\ (\A i \in 1..arg : self.curves[i].curves # <<>>) =>
              CountVerb(skpath, "Move") = arg

\* a contour of one segment that is not collapsed was appended after the
\* verbs of a contour of one collapsed segment
C8_Witness ==
    /\ pc = "append_loop"
    /\ arg = 2
    /\ Len(self.curves[1].curves) = 1
    /\ Len(self.curves[2].curves) = 1
    /\ Collapsed(self.curves[1].curves[1])
    /\ ~Collapsed(self.curves[2].curves[1])
    /\ CountVerb(skpath, "Move") = 2
    /\ CountVerb(skpath, "Line") = 1
    /\ CountVerb(skpath, "Cubic") = 2

\* consecutive segments of every contour share their end/start point
Continuous(out) ==
    \A i \in 1..Len(out.curves) :
        \A j \in 1..(Len(out.curves[i].curves) - 1) :
            to_control_points(out.curves[i].curves[j])[4]
                = to_control_points(out.curves[i].curves[j + 1])[1]

SameControlPoints(o1, o2) ==
    /\ Len(o1.curves) = Len(o2.curves)
    /\ \A i \in 1..Len(o1.curves) :
          /\ Len(o1.curves[i].curves) = Len(o2.curves[i].curves)
          /\ \A j \in 1..Len(o1.curves[i].curves) :
                to_control_points(o1.curves[i].curves[j])
                    = to_control_points(o2.curves[i].curves[j])

\* C9: for every outline o whose contours are non-empty and whose consecutive
\* segments share end/start points, from_skpath(to_skpath(o)) has the
\* contours of o, the segments of each contour and the four control points of
\* each segment, collapsed segments (P0 = P2 and P1 = P3) included.
C9_PathRoundTrip ==
    (pc = "round_trip_done"
        /\ NonEmptyContours(self, Len(self.curves)) = Len(self.curves)
        /\ Continuous(self)) =>
            SameControlPoints(ret.value, self)

=============================================================================
